---- MODULE Spec2Model ----
(***************************************************************************)
(* The savings-pool contract HelloContract (SnbPoolTrait) of               *)
(* contracts/hello_world/src/lib.rs as a state machine over the contract's *)
(* instance storage.  Every public function is one action; a call that     *)
(* panics is a step too (it records its error in `last`).                  *)
(***************************************************************************)
EXTENDS Integers, Sequences, FiniteSets, TLC

VARIABLES
    instance,         \* e.storage().instance(): the values under STATE and INTIALIZED
    overflow_checks,  \* build profile: does the u32 subtraction of line 182 trap or wrap
    last,             \* the latest call: function, arguments, error, returned value
    initialize_ok,    \* history: number of initialize calls that returned (saturating)
    spw_named,        \* history: subscribers named by a set_pool_winner that returned
    sentinel_of,      \* history: iteration -> dummyAddress of its latest start_new_iteration
    winners_since,    \* history: iteration -> subscribers set as winner since that creation
    scenario          \* history: how far the calls so far follow ScenarioCalls (-1: not)

vars == <<instance, overflow_checks, last, initialize_ok, spw_named,
          sentinel_of, winners_since, scenario>>

----------------------------------------------------------------------------
(* Bounds of the model *)

\* set_pool_winner and get_pool_winner are called for the iterations 0..MaxIteration
MaxIteration == 4
\* u32 arithmetic is modelled modulo U32Modulus (2^32 in the build)
U32Modulus == 256
\* the history counter initialize_ok saturates here
MaxCount == 2

----------------------------------------------------------------------------
(* Values *)

Address == {"owner", "A", "sentinel"}
Frequency == {"DAY", "WEEK", "MONTH"}
Iterations == 0..MaxIteration

\* argument values the calls are made with
Users == {"owner", "A"}
\* the iterations start_new_iteration is called for; the others are never created
StartedIterations == {0, 1}
Dummies == {"sentinel"}
PrizeAmounts == {0, 80}
InitializeArgs ==
    { [user |-> "owner", no_of_subs |-> 5, amount |-> 100, frequency |-> "WEEK"],
      [user |-> "A", no_of_subs |-> 1, amount |-> 100, frequency |-> "MONTH"] }

\* Option<T>: None, Some(v)
None == << >>
Some(v) == << v >>

\* soroban_sdk::Map: a function on the keys present
EmptyMap == [k \in {} |-> {}]
contains_key(m, k) == k \in DOMAIN m
MapGet(m, k) == IF k \in DOMAIN m THEN Some(m[k]) ELSE None
MapSet(m, k, v) == [x \in (DOMAIN m) \cup {k} |-> IF x = k THEN v ELSE m[x]]

Subscriber(w, p, d) == [winner_at_iter |-> w, prize_money |-> p, prev_due_amount |-> d]

PoolParams(n, f, a, o) ==
    [no_of_subs |-> n, frequency |-> f, sub_amount |-> a, pool_owner |-> o]

PoolIterationParams(i, c, w, p, d) ==
    [current_iteration |-> i, amount_collected |-> c, winner |-> w,
     prize_money |-> p, dividend_amount |-> d]

\* the storage with nothing stored: a freshly deployed contract
FreshStorage == [STATE |-> None, INTIALIZED |-> None]

\* a State record with empty maps, as a host-side set-up would have to store it
BlankState ==
    [pool_params |-> PoolParams(0, "DAY", 0, "sentinel"),
     current_iteration |-> 0,
     subcriber_map |-> EmptyMap,
     pool_iteration_map |-> EmptyMap]

----------------------------------------------------------------------------
(* Outcomes of a call.  A panic ends the call where it happens: the storage *)
(* it leaves is the storage as written up to that point.                    *)

Panic(st, e) == [err |-> e, storage |-> st, ret |-> None]
Return(st, v) == [err |-> "none", storage |-> st, ret |-> v]

\* pool_iteration.amount_collected - prize_amount on u32 (line 182)
sub_u32(a, b) == (a - b + U32Modulus) % U32Modulus

----------------------------------------------------------------------------
(* The contract functions *)

\* get_state with the unwrap replaced by a default: an absent STATE reads as a blank State
get_state_or_default(st) ==
    IF st.STATE = None THEN Return(st, Some(BlankState))
    ELSE Return(st, Some(st.STATE[1]))

get_state(st) ==
    IF st.STATE = None THEN Panic(st, "NotInitialized")
    ELSE Return(st, Some(st.STATE[1]))

\* initialize without the write of line 139: the marker is never set
initialize_no_marker(st, user, no_of_subs, amount, frequency, auth) ==
    LET initialized == IF st.INTIALIZED = None THEN FALSE ELSE st.INTIALIZED[1] IN
    IF initialized THEN Panic(st, "AlreadyInitialized")
    ELSE IF get_state(st).err # "none" THEN Panic(st, get_state(st).err)
    ELSE IF ~auth THEN Panic(st, "Unauthorized")
    ELSE
      LET state == get_state(st).ret[1]
          s1 == [state EXCEPT !.pool_params = PoolParams(no_of_subs, frequency, amount, user)]
          s2 == [s1 EXCEPT !.subcriber_map = MapSet(@, user, Subscriber(0, 0, 0))]
      IN Return([st EXCEPT !.STATE = Some(s2)], None)

\* initialize that stores false under INTIALIZED at line 139
initialize_marker_false(st, user, no_of_subs, amount, frequency, auth) ==
    LET initialized == IF st.INTIALIZED = None THEN FALSE ELSE st.INTIALIZED[1] IN
    IF initialized THEN Panic(st, "AlreadyInitialized")
    ELSE IF get_state(st).err # "none" THEN Panic(st, get_state(st).err)
    ELSE IF ~auth THEN Panic(st, "Unauthorized")
    ELSE
      LET state == get_state(st).ret[1]
          s1 == [state EXCEPT !.pool_params = PoolParams(no_of_subs, frequency, amount, user)]
          s2 == [s1 EXCEPT !.subcriber_map = MapSet(@, user, Subscriber(0, 0, 0))]
          w1 == [st EXCEPT !.STATE = Some(s2)]
          w2 == [w1 EXCEPT !.INTIALIZED = Some(FALSE)]
      IN Return(w2, None)

\* initialize without the check of lines 113-116
initialize_no_guard(st, user, no_of_subs, amount, frequency, auth) ==
    IF get_state(st).err # "none" THEN Panic(st, get_state(st).err)
    ELSE IF ~auth THEN Panic(st, "Unauthorized")
    ELSE
      LET state == get_state(st).ret[1]
          s1 == [state EXCEPT !.pool_params = PoolParams(no_of_subs, frequency, amount, user)]
          s2 == [s1 EXCEPT !.subcriber_map = MapSet(@, user, Subscriber(0, 0, 0))]
          w1 == [st EXCEPT !.STATE = Some(s2)]
          w2 == [w1 EXCEPT !.INTIALIZED = Some(TRUE)]
      IN Return(w2, None)

initialize(st, user, no_of_subs, amount, frequency, auth) ==
    LET initialized == IF st.INTIALIZED = None THEN FALSE ELSE st.INTIALIZED[1] IN
    IF initialized THEN Panic(st, "AlreadyInitialized")
    ELSE IF get_state(st).err # "none" THEN Panic(st, get_state(st).err)
    ELSE IF ~auth THEN Panic(st, "Unauthorized")
    ELSE
      LET state == get_state(st).ret[1]
          s1 == [state EXCEPT !.pool_params = PoolParams(no_of_subs, frequency, amount, user)]
          s2 == [s1 EXCEPT !.subcriber_map = MapSet(@, user, Subscriber(0, 0, 0))]
          w1 == [st EXCEPT !.STATE = Some(s2)]
          w2 == [w1 EXCEPT !.INTIALIZED = Some(TRUE)]
      IN Return(w2, None)

\* join without the membership check of lines 145-147
join_no_member_check(st, user, auth) ==
    IF get_state(st).err # "none" THEN Panic(st, get_state(st).err)
    ELSE
      LET state == get_state(st).ret[1] IN
      IF ~auth THEN Panic(st, "Unauthorized")
      ELSE
        LET s1 == [state EXCEPT !.subcriber_map = MapSet(@, user, Subscriber(0, 0, 0))]
        IN Return([st EXCEPT !.STATE = Some(s1)], None)

\* join that refuses a user once no_of_subs subscribers are enrolled
join_with_capacity_check(st, user, auth) ==
    IF get_state(st).err # "none" THEN Panic(st, get_state(st).err)
    ELSE
      LET state == get_state(st).ret[1] IN
      IF contains_key(state.subcriber_map, user) THEN Panic(st, "AlreadyMember")
      ELSE IF Cardinality(DOMAIN state.subcriber_map) >= state.pool_params.no_of_subs
      THEN Panic(st, "PoolFull")
      ELSE IF ~auth THEN Panic(st, "Unauthorized")
      ELSE
        LET s1 == [state EXCEPT !.subcriber_map = MapSet(@, user, Subscriber(0, 0, 0))]
        IN Return([st EXCEPT !.STATE = Some(s1)], None)

\* join without the require_auth of line 148
join_no_auth(st, user, auth) ==
    IF get_state(st).err # "none" THEN Panic(st, get_state(st).err)
    ELSE
      LET state == get_state(st).ret[1] IN
      IF contains_key(state.subcriber_map, user) THEN Panic(st, "AlreadyMember")
      ELSE
        LET s1 == [state EXCEPT !.subcriber_map = MapSet(@, user, Subscriber(0, 0, 0))]
        IN Return([st EXCEPT !.STATE = Some(s1)], None)

join(st, user, auth) ==
    IF get_state(st).err # "none" THEN Panic(st, get_state(st).err)
    ELSE
      LET state == get_state(st).ret[1] IN
      IF contains_key(state.subcriber_map, user) THEN Panic(st, "AlreadyMember")
      ELSE IF ~auth THEN Panic(st, "Unauthorized")
      ELSE
        LET s1 == [state EXCEPT !.subcriber_map = MapSet(@, user, Subscriber(0, 0, 0))]
        IN Return([st EXCEPT !.STATE = Some(s1)], None)

\* set_pool_winner that stores the State right after line 173, before the
\* iteration is looked up
set_pool_winner_early_save(st, iteration, prize_amount, subscriber, checks) ==
    IF get_state(st).err # "none" THEN Panic(st, get_state(st).err)
    ELSE
      LET state == get_state(st).ret[1] IN
      IF MapGet(state.subcriber_map, subscriber) = None THEN Panic(st, "SubscriberNotFound")
      ELSE
        LET subr == MapGet(state.subcriber_map, subscriber)[1] IN
        IF subr.winner_at_iter # 0 THEN Panic(st, "AlreadyWinner")
        ELSE
          LET subr2 == [subr EXCEPT !.winner_at_iter = iteration, !.prize_money = prize_amount]
              s1 == [state EXCEPT !.subcriber_map = MapSet(@, subscriber, subr2)]
              st1 == [st EXCEPT !.STATE = Some(s1)]
          IN
          IF MapGet(s1.pool_iteration_map, iteration) = None THEN Panic(st1, "IterationNotFound")
          ELSE
            LET pool_iteration == MapGet(s1.pool_iteration_map, iteration)[1] IN
            IF pool_iteration.amount_collected < prize_amount /\ checks
            THEN Panic(st1, "ArithmeticUnderflow")
            ELSE
              LET p2 == [pool_iteration EXCEPT
                            !.winner = subscriber,
                            !.prize_money = prize_amount,
                            !.dividend_amount = sub_u32(pool_iteration.amount_collected, prize_amount)]
                  s2 == [s1 EXCEPT !.pool_iteration_map = MapSet(@, iteration, p2)]
              IN Return([st1 EXCEPT !.STATE = Some(s2)], None)

\* set_pool_winner that takes a zeroed record when the iteration has none
\* (unwrap_or instead of the unwrap of line 176)
set_pool_winner_default_iteration(st, iteration, prize_amount, subscriber, checks) ==
    IF get_state(st).err # "none" THEN Panic(st, get_state(st).err)
    ELSE
      LET state == get_state(st).ret[1] IN
      IF MapGet(state.subcriber_map, subscriber) = None THEN Panic(st, "SubscriberNotFound")
      ELSE
        LET subr == MapGet(state.subcriber_map, subscriber)[1] IN
        IF subr.winner_at_iter # 0 THEN Panic(st, "AlreadyWinner")
        ELSE
          LET subr2 == [subr EXCEPT !.winner_at_iter = iteration, !.prize_money = prize_amount]
              s1 == [state EXCEPT !.subcriber_map = MapSet(@, subscriber, subr2)]
              pool_iteration ==
                  IF MapGet(s1.pool_iteration_map, iteration) = None
                  THEN PoolIterationParams(iteration, 0, subscriber, 0, 0)
                  ELSE MapGet(s1.pool_iteration_map, iteration)[1]
          IN
          IF pool_iteration.amount_collected < prize_amount /\ checks
          THEN Panic(st, "ArithmeticUnderflow")
          ELSE
            LET p2 == [pool_iteration EXCEPT
                          !.winner = subscriber,
                          !.prize_money = prize_amount,
                          !.dividend_amount = sub_u32(pool_iteration.amount_collected, prize_amount)]
                s2 == [s1 EXCEPT !.pool_iteration_map = MapSet(@, iteration, p2)]
            IN Return([st EXCEPT !.STATE = Some(s2)], None)

\* set_pool_winner that assigns the prize to amount_collected as well (line 180)
set_pool_winner_collects(st, iteration, prize_amount, subscriber, checks) ==
    IF get_state(st).err # "none" THEN Panic(st, get_state(st).err)
    ELSE
      LET state == get_state(st).ret[1] IN
      IF MapGet(state.subcriber_map, subscriber) = None THEN Panic(st, "SubscriberNotFound")
      ELSE
        LET subr == MapGet(state.subcriber_map, subscriber)[1] IN
        IF subr.winner_at_iter # 0 THEN Panic(st, "AlreadyWinner")
        ELSE
          LET subr2 == [subr EXCEPT !.winner_at_iter = iteration, !.prize_money = prize_amount]
              s1 == [state EXCEPT !.subcriber_map = MapSet(@, subscriber, subr2)]
          IN
          IF MapGet(s1.pool_iteration_map, iteration) = None THEN Panic(st, "IterationNotFound")
          ELSE
            LET pool_iteration == MapGet(s1.pool_iteration_map, iteration)[1] IN
            LET p2 == [pool_iteration EXCEPT
                          !.winner = subscriber,
                          !.prize_money = prize_amount,
                          !.amount_collected = prize_amount,
                          !.dividend_amount = sub_u32(prize_amount, prize_amount)]
                s2 == [s1 EXCEPT !.pool_iteration_map = MapSet(@, iteration, p2)]
            IN Return([st EXCEPT !.STATE = Some(s2)], None)

set_pool_winner(st, iteration, prize_amount, subscriber, checks) ==
    IF get_state(st).err # "none" THEN Panic(st, get_state(st).err)
    ELSE
      LET state == get_state(st).ret[1] IN
      IF MapGet(state.subcriber_map, subscriber) = None THEN Panic(st, "SubscriberNotFound")
      ELSE
        LET subr == MapGet(state.subcriber_map, subscriber)[1] IN
        IF subr.winner_at_iter # 0 THEN Panic(st, "AlreadyWinner")
        ELSE
          LET subr2 == [subr EXCEPT !.winner_at_iter = iteration, !.prize_money = prize_amount]
              s1 == [state EXCEPT !.subcriber_map = MapSet(@, subscriber, subr2)]
          IN
          IF MapGet(s1.pool_iteration_map, iteration) = None THEN Panic(st, "IterationNotFound")
          ELSE
            LET pool_iteration == MapGet(s1.pool_iteration_map, iteration)[1] IN
            IF pool_iteration.amount_collected < prize_amount /\ checks
            THEN Panic(st, "ArithmeticUnderflow")
            ELSE
              LET p2 == [pool_iteration EXCEPT
                            !.winner = subscriber,
                            !.prize_money = prize_amount,
                            !.dividend_amount = sub_u32(pool_iteration.amount_collected, prize_amount)]
                  s2 == [s1 EXCEPT !.pool_iteration_map = MapSet(@, iteration, p2)]
              IN Return([st EXCEPT !.STATE = Some(s2)], None)

get_pool_winner(st, iteration) ==
    IF get_state(st).err # "none" THEN Panic(st, get_state(st).err)
    ELSE
      LET state == get_state(st).ret[1] IN
      IF MapGet(state.pool_iteration_map, iteration) = None THEN Panic(st, "IterationNotFound")
      ELSE Return(st, Some(MapGet(state.pool_iteration_map, iteration)[1].winner))

\* get_subscriber_details that enrols an unknown address with a zero record and stores it
get_subscriber_details_or_insert(st, subscriber_address) ==
    IF get_state(st).err # "none" THEN Panic(st, get_state(st).err)
    ELSE
      LET state == get_state(st).ret[1] IN
      IF MapGet(state.subcriber_map, subscriber_address) = None
      THEN LET s1 == [state EXCEPT
                         !.subcriber_map = MapSet(@, subscriber_address, Subscriber(0, 0, 0))]
           IN Return([st EXCEPT !.STATE = Some(s1)], Some(Subscriber(0, 0, 0)))
      ELSE Return(st, MapGet(state.subcriber_map, subscriber_address))

get_subscriber_details(st, subscriber_address) ==
    IF get_state(st).err # "none" THEN Panic(st, get_state(st).err)
    ELSE
      LET state == get_state(st).ret[1] IN
      IF MapGet(state.subcriber_map, subscriber_address) = None
      THEN Panic(st, "SubscriberNotFound")
      ELSE Return(st, MapGet(state.subcriber_map, subscriber_address))

\* start_new_iteration that leaves a record already stored for the iteration as it is
start_new_iteration_keep_existing(st, iteration, dummyAddress) ==
    IF get_state(st).err # "none" THEN Panic(st, get_state(st).err)
    ELSE
      LET state == get_state(st).ret[1]
          pool_iteration == PoolIterationParams(iteration, 0, dummyAddress, 0, 0)
          s1 == IF contains_key(state.pool_iteration_map, iteration) THEN state
                ELSE [state EXCEPT !.pool_iteration_map = MapSet(@, iteration, pool_iteration)]
      IN Return([st EXCEPT !.STATE = Some(s1)], None)

\* start_new_iteration that also advances State.current_iteration
start_new_iteration_advancing(st, iteration, dummyAddress) ==
    IF get_state(st).err # "none" THEN Panic(st, get_state(st).err)
    ELSE
      LET state == get_state(st).ret[1]
          pool_iteration == PoolIterationParams(iteration, 0, dummyAddress, 0, 0)
          s1 == [state EXCEPT !.pool_iteration_map = MapSet(@, iteration, pool_iteration),
                              !.current_iteration = iteration]
      IN Return([st EXCEPT !.STATE = Some(s1)], None)

start_new_iteration(st, iteration, dummyAddress) ==
    IF get_state(st).err # "none" THEN Panic(st, get_state(st).err)
    ELSE
      LET state == get_state(st).ret[1]
          pool_iteration == PoolIterationParams(iteration, 0, dummyAddress, 0, 0)
          s1 == [state EXCEPT !.pool_iteration_map = MapSet(@, iteration, pool_iteration)]
      IN Return([st EXCEPT !.STATE = Some(s1)], None)

----------------------------------------------------------------------------
(* History kept beside the contract's storage *)

\* the scenario of the specification's testable properties
ScenarioCalls ==
    << [op |-> "initialize",
        args |-> [user |-> "owner", no_of_subs |-> 5, amount |-> 100,
                  frequency |-> "WEEK", auth |-> TRUE]],
       [op |-> "join", args |-> [user |-> "A", auth |-> TRUE]],
       [op |-> "start_new_iteration", args |-> [iteration |-> 1, dummyAddress |-> "sentinel"]],
       [op |-> "set_pool_winner",
        args |-> [iteration |-> 1, prize_amount |-> 80, subscriber |-> "A"]] >>

\* the scenario position after a call: one further when the call is the scenario's next
ScenarioNext(pos, op, args) ==
    IF pos >= 0 /\ pos < Len(ScenarioCalls) /\ ScenarioCalls[pos + 1] = [op |-> op, args |-> args]
    THEN pos + 1
    ELSE -1

Saturate(n) == IF n < MaxCount THEN n + 1 ELSE n

\* what every call does: the storage it leaves, its record, the scenario position
Call(op, args, out) ==
    /\ instance' = out.storage
    /\ last' = [op |-> op, args |-> args, err |-> out.err, ret |-> out.ret]
    /\ scenario' = ScenarioNext(scenario, op, args)
    /\ UNCHANGED overflow_checks

----------------------------------------------------------------------------
NoCall == [op |-> "none", args |-> << >>, err |-> "none", ret |-> None]

History0 ==
    /\ last = NoCall
    /\ initialize_ok = 0
    /\ spw_named = {}
    /\ sentinel_of = EmptyMap
    /\ winners_since = EmptyMap
    /\ scenario = 0

\* a freshly deployed contract: nothing is stored
Init ==
    /\ instance = FreshStorage
    /\ overflow_checks \in BOOLEAN
    /\ History0

\* a contract whose storage already holds a State record with empty maps
InitSeeded ==
    /\ instance = [STATE |-> Some(BlankState), INTIALIZED |-> None]
    /\ overflow_checks \in BOOLEAN
    /\ History0

GetState ==
    /\ Call("get_state", << >>, get_state(instance))
    /\ UNCHANGED <<initialize_ok, spw_named, sentinel_of, winners_since>>

Initialize ==
    \E a \in InitializeArgs, auth \in BOOLEAN :
        LET out == initialize(instance, a.user, a.no_of_subs, a.amount, a.frequency, auth) IN
        /\ Call("initialize",
                [user |-> a.user, no_of_subs |-> a.no_of_subs, amount |-> a.amount,
                 frequency |-> a.frequency, auth |-> auth], out)
        /\ initialize_ok' = IF out.err = "none" THEN Saturate(initialize_ok) ELSE initialize_ok
        /\ UNCHANGED <<spw_named, sentinel_of, winners_since>>

Join ==
    \E user \in Users, auth \in BOOLEAN :
        /\ Call("join", [user |-> user, auth |-> auth], join(instance, user, auth))
        /\ UNCHANGED <<initialize_ok, spw_named, sentinel_of, winners_since>>

SetPoolWinner ==
    \E iteration \in Iterations, prize_amount \in PrizeAmounts, subscriber \in Address :
        LET out == set_pool_winner(instance, iteration, prize_amount, subscriber, overflow_checks) IN
        /\ Call("set_pool_winner",
                [iteration |-> iteration, prize_amount |-> prize_amount,
                 subscriber |-> subscriber], out)
        /\ spw_named' = IF out.err = "none" THEN spw_named \cup {subscriber} ELSE spw_named
        /\ winners_since' =
              IF out.err = "none" /\ iteration \in DOMAIN winners_since
              THEN [winners_since EXCEPT ![iteration] = @ \cup {subscriber}]
              ELSE winners_since
        /\ UNCHANGED <<initialize_ok, sentinel_of>>

GetPoolWinner ==
    \E iteration \in Iterations :
        /\ Call("get_pool_winner", [iteration |-> iteration], get_pool_winner(instance, iteration))
        /\ UNCHANGED <<initialize_ok, spw_named, sentinel_of, winners_since>>

GetSubscriberDetails ==
    \E a \in Address :
        /\ Call("get_subscriber_details", [subscriber_address |-> a],
                get_subscriber_details(instance, a))
        /\ UNCHANGED <<initialize_ok, spw_named, sentinel_of, winners_since>>

StartNewIteration ==
    \E iteration \in StartedIterations, dummyAddress \in Dummies :
        LET out == start_new_iteration(instance, iteration, dummyAddress) IN
        /\ Call("start_new_iteration",
                [iteration |-> iteration, dummyAddress |-> dummyAddress], out)
        /\ sentinel_of' = IF out.err = "none" THEN MapSet(sentinel_of, iteration, dummyAddress)
                          ELSE sentinel_of
        /\ winners_since' = IF out.err = "none" THEN MapSet(winners_since, iteration, {})
                            ELSE winners_since
        /\ UNCHANGED <<initialize_ok, spw_named>>

Next ==
    \/ GetState
    \/ Initialize
    \/ Join
    \/ SetPoolWinner
    \/ GetPoolWinner
    \/ GetSubscriberDetails
    \/ StartNewIteration

Spec == Init /\ [][Next]_vars

SpecSeeded == InitSeeded /\ [][Next]_vars

----------------------------------------------------------------------------
(* Reading the stored State *)

HasState(st) == st.STATE # None
subcriber_map(st) == st.STATE[1].subcriber_map
pool_iteration_map(st) == st.STATE[1].pool_iteration_map
current_iteration(st) == st.STATE[1].current_iteration
pool_params(st) == st.STATE[1].pool_params

----------------------------------------------------------------------------
(* C1 *)

\* C1: from the uninitialized pool (no STATE record, no marker), an initialize
\* call carrying the caller's authorization succeeds; afterwards the stored
\* State has pool_params = (n, freq, amount, owner = caller), the caller is a
\* subscriber with all-zero fields, and the marker is set.
C1_InitializeFromFresh ==
    [][ (instance = FreshStorage /\ last'.op = "initialize" /\ last'.args.auth) =>
          /\ last'.err = "none"
          /\ HasState(instance')
          /\ pool_params(instance') =
                PoolParams(last'.args.no_of_subs, last'.args.frequency,
                           last'.args.amount, last'.args.user)
          /\ MapGet(subcriber_map(instance'), last'.args.user) = Some(Subscriber(0, 0, 0))
          /\ instance'.INTIALIZED = Some(TRUE) ]_vars

----------------------------------------------------------------------------
(* C2 *)

----------------------------------------------------------------------------
(* C3 *)

----------------------------------------------------------------------------
(* C4 *)

----------------------------------------------------------------------------
(* C5 *)

----------------------------------------------------------------------------
(* C6 *)

----------------------------------------------------------------------------
(* C7 *)

----------------------------------------------------------------------------
(* C8 *)

----------------------------------------------------------------------------
(* C9 *)

\* C9: the calls of ScenarioCalls, made in this order from the uninitialized
\* pool, all succeed, and end in a State where A has winner_at_iter = 1 and
\* prize_money = 80 and iteration 1 has winner A, prize_money 80 and
\* dividend_amount = amount_collected - 80.
C9_Scenario ==
    /\ scenario >= 1 => last.err = "none"
    /\ scenario = Len(ScenarioCalls) =>
          /\ HasState(instance)
          /\ MapGet(subcriber_map(instance), "A") = Some(Subscriber(1, 80, 0))
          /\ 1 \in DOMAIN pool_iteration_map(instance)
          /\ pool_iteration_map(instance)[1].winner = "A"
          /\ pool_iteration_map(instance)[1].prize_money = 80
          /\ pool_iteration_map(instance)[1].dividend_amount =
                pool_iteration_map(instance)[1].amount_collected - 80

----------------------------------------------------------------------------
(* C10 *)

\* C10: while the pool is uninitialized (nothing stored, no initialize has
\* succeeded), every call of join, set_pool_winner, start_new_iteration,
\* get_state, get_pool_winner and get_subscriber_details fails with the
\* not-initialized error and writes nothing.
C10_UninitializedRejects ==
    [][ (instance = FreshStorage /\ initialize_ok = 0 /\ last'.op # "initialize") =>
          (last'.err = "NotInitialized" /\ instance' = instance) ]_vars

\* an authorized join has failed with the not-initialized error on the uninitialized pool
C10_Witness ==
    /\ instance = FreshStorage
    /\ initialize_ok = 0
    /\ last.op = "join"
    /\ last.args.auth
    /\ last.err = "NotInitialized"

----------------------------------------------------------------------------
(* C11 *)

----------------------------------------------------------------------------
(* C12 *)

Accessors == {"get_state", "get_pool_winner", "get_subscriber_details"}

\* the outcome of making the accessor call c on the storage st
Reissue(st, c) ==
    IF c.op = "get_state" THEN get_state(st)
    ELSE IF c.op = "get_pool_winner" THEN get_pool_winner(st, c.args.iteration)
    ELSE get_subscriber_details(st, c.args.subscriber_address)

----------------------------------------------------------------------------
(* C13 *)

----------------------------------------------------------------------------
(* C14 *)

----------------------------------------------------------------------------
(* C15 *)

----------------------------------------------------------------------------
(* C16 *)

----------------------------------------------------------------------------
(* C17 *)

----------------------------------------------------------------------------
(* C18 *)

----------------------------------------------------------------------------
(* C19 *)

----------------------------------------------------------------------------
(* C20 *)

====
